---------------------------- MODULE Spec2Model ----------------------------
(***************************************************************************)
(* Catalog data-access layer of the storefront (the firestore read layer): *)
(* option sanitizers, single-entity and list fetches with field            *)
(* projection, batch fetch by ids, the product with its resolved upsell    *)
(* (getProductWithUpsell), the two singleton bootstraps (getPageHero,      *)
(* getSettings), and store operations that reject.                         *)
(*                                                                         *)
(* Representation.                                                         *)
(*  - A JavaScript string that the code inspects character by character    *)
(*    (trim, toUpperCase) is a sequence of one-character strings; Str      *)
(*    turns it into the atomic string used as a document key or a field    *)
(*    name.                                                                *)
(*  - A JavaScript value that may or may not be a string is a record       *)
(*    [isString, chars]; an option that may or may not be an array is a    *)
(*    record [isArray, items].                                             *)
(*  - A document is a function from field names to values; a partition is  *)
(*    a function from the keys of its documents to the documents, so a     *)
(*    document is absent exactly when its key is outside the domain.       *)
(*  - Stored field names are those of the data model; the settings         *)
(*    document, whose sections are arbitrary keys, may also carry a key    *)
(*    that names a member of Object.prototype.                             *)
(***************************************************************************)
EXTENDS Integers, Sequences, FiniteSets, TLC

VARIABLES
    store,      \* the document store: partition name -> (key -> document)
    store0,     \* the store the behaviour started from
    call,       \* the last completed catalog read: op, args, result, store
                \* ops, and which of the ops failed (0: none)
    pc,         \* per caller: position inside getPageHero / getSettings
    local,      \* per caller: the locals kept across an await
    result,     \* per caller: what its last singleton call returned
    callNo,     \* per caller: sequence number of its current / last call
    stale,      \* per caller: another actor wrote its document since its read
    history,    \* the reads and puts on the singleton documents, oldest first
    pwu         \* the getProductWithUpsell call in flight: position and locals

vars ==
    <<store, store0, call, pc, local, result, callNo, stale, history, pwu>>

(***************************************************************************)
(* Bounds of the model.                                                    *)
(***************************************************************************)
MaxDocs == 2        \* documents in the catalog partitions of an initial store
MaxCalls == 3       \* singleton calls started in one behaviour
MaxAdminWrites == 1 \* writes of the external (admin) actor in one behaviour

(***************************************************************************)
(* Strings.                                                                *)
(***************************************************************************)
WhiteSpace == {" ", "\t"}

Lower == <<"a","b","c","d","e","f","g","h","i","j","k","l","m",
           "n","o","p","q","r","s","t","u","v","w","x","y","z">>
Upper == <<"A","B","C","D","E","F","G","H","I","J","K","L","M",
           "N","O","P","Q","R","S","T","U","V","W","X","Y","Z">>

RECURSIVE Str(_)
Str(s) == IF s = <<>> THEN "" ELSE Head(s) \o Str(Tail(s))

RECURSIVE TrimStart(_)
TrimStart(s) ==
    IF s # <<>> /\ Head(s) \in WhiteSpace THEN TrimStart(Tail(s)) ELSE s

RECURSIVE TrimEnd(_)
TrimEnd(s) ==
    IF s # <<>> /\ s[Len(s)] \in WhiteSpace
    THEN TrimEnd(SubSeq(s, 1, Len(s) - 1))
    ELSE s

\* String.prototype.trim
Trim(s) == TrimEnd(TrimStart(s))

UpperChar(c) ==
    IF \E i \in 1..Len(Lower) : Lower[i] = c
    THEN Upper[CHOOSE i \in 1..Len(Lower) : Lower[i] = c]
    ELSE c

\* String.prototype.toUpperCase
ToUpperCase(s) == [i \in 1..Len(s) |-> UpperChar(s[i])]

(***************************************************************************)
(* JavaScript values of the option objects.                                *)
(***************************************************************************)
JsStr(s) == [isString |-> TRUE, chars |-> s]
JsOther == [isString |-> FALSE, chars |-> <<>>]   \* undefined, null, a number
JsArray(items) == [isArray |-> TRUE, items |-> items]
JsNoArray == [isArray |-> FALSE, items |-> <<>>]

\* truthiness of a value that is a string or undefined
Truthy(v) == v.isString /\ v.chars # <<>>

\* the filter shared by the three sanitizers:
\*   typeof x === "string" && x.trim() !== ""
NonBlankString(x) == x.isString /\ Trim(x.chars) # <<>>

\*   Array.isArray(a) ? a.filter(NonBlankString) : []
\* the entries kept are the original strings, not their trimmed form
FilterStrings(arr) ==
    IF arr.isArray
    THEN LET kept == SelectSeq(arr.items, NonBlankString)
         IN [i \in 1..Len(kept) |-> Str(kept[i].chars)]
    ELSE <<>>

sanitizeSingleItemOptions(options) ==
    [id |-> Str(Trim(options.id)), fields |-> FilterStrings(options.fields)]

validVisibilityFlags == {"DRAFT", "PUBLISHED", "HIDDEN"}

\* faulty variant: the visibility passed through as sanitizeBaseOptions does
MutSanitizeVisibility(v) == v

SanitizeVisibility(v) ==
    IF v.isString /\ Str(ToUpperCase(v.chars)) \in validVisibilityFlags
    THEN JsStr(ToUpperCase(v.chars))
    ELSE JsOther

sanitizeMultiItemOptions(options) ==
    [ids |-> FilterStrings(options.ids),
     fields |-> FilterStrings(options.fields),
     visibility |-> SanitizeVisibility(options.visibility)]

sanitizeBaseOptions(options) ==
    [ids |-> <<>>,
     fields |-> FilterStrings(options.fields),
     visibility |-> options.visibility]


(***************************************************************************)
(* Documents of the data model.                                            *)
(***************************************************************************)
ProductKeys == {"p1", "p2"}
CollectionKeys == {"k1", "k2"}
UpsellKeys == {"u1", "u2"}
CategoryKeys == {"g1", "g2"}

\* the store returns the documents of a query ordered by key
KeyOrder == <<"g1", "g2", "k1", "k2", "p1", "p2", "u1", "u2">>

\* the second and third documents store a field named id of their own; the
\* first names no upsell, the second has no upsell field, the third names u1
ProductDocs ==
    { [name |-> "A", updatedAt |-> "2024-01-01", visibility |-> "PUBLISHED",
       slug |-> "a", images |-> [main |-> "a.png"],
       pricing |-> [basePrice |-> 10], upsell |-> ""],
      [name |-> "B", updatedAt |-> "2024-01-02", visibility |-> "DRAFT",
       slug |-> "b", images |-> [main |-> "b.png"],
       pricing |-> [basePrice |-> 20], id |-> "zz"],
      [name |-> "C", updatedAt |-> "2024-01-03", visibility |-> "PUBLISHED",
       slug |-> "c", images |-> [main |-> "c.png"],
       pricing |-> [basePrice |-> 30], id |-> "p1", upsell |-> "u1"] }

CollectionDocs ==
    { [title |-> "Sale", index |-> 2, updatedAt |-> "2024-01-01",
       visibility |-> "PUBLISHED", collectionType |-> "FEATURED",
       products |-> << [id |-> "p2", index |-> 1],
                       [id |-> "p1", index |-> 2] >>],
      [title |-> "New", index |-> 1, updatedAt |-> "2024-01-02",
       visibility |-> "DRAFT", collectionType |-> "BANNER",
       products |-> << >>, id |-> "zz"] }

UpsellDocs ==
    { [updatedAt |-> "2024-01-01", visibility |-> "PUBLISHED",
       products |-> << [index |-> 2, id |-> "p1", name |-> "A"],
                       [index |-> 1, id |-> "p2", name |-> "B"],
                       [index |-> 1, id |-> "p1", name |-> "A2"] >>],
      [updatedAt |-> "2024-01-02", visibility |-> "DRAFT", id |-> "zz"] }

CategoryDocs ==
    { [index |-> 2, name |-> "Tops", visibility |-> "PUBLISHED"],
      [index |-> 1, name |-> "Hats", visibility |-> "HIDDEN", id |-> "zz"] }

\* new Date(s).getTime() on the timestamps the documents carry
GetTime(s) ==
    CASE s = "2024-01-01" -> 1
      [] s = "2024-01-02" -> 2
      [] s = "2024-01-03" -> 3

EmptyPartition == [k \in {} |-> [f \in {} |-> ""]]

PartialFns(K, D) == UNION { [S -> D] : S \in SUBSET K }

(***************************************************************************)
(* The store client: doc/getDoc, collection/query/where/getDocs, setDoc.   *)
(***************************************************************************)
\* getDoc(doc(database, part, key)): the snapshot of one document
GetDoc(db, part, key) ==
    [exists |-> key \in DOMAIN db[part],
     id |-> key,
     data |-> IF key \in DOMAIN db[part] THEN db[part][key]
              ELSE [f \in {} |-> ""]]

\* getDocs(query(collection(database, part), where...)): the documents that
\* satisfy every predicate of the query, as [id, data], ordered by key.
\*   useIn:  where("__name__", "in", ids)
\*   useVis: where("visibility", "==", vis)
GetDocs(db, part, useIn, ids, useVis, vis) ==
    LET Match(k) ==
            /\ k \in DOMAIN db[part]
            /\ useIn => k \in ids
            /\ useVis => /\ "visibility" \in DOMAIN db[part][k]
                         /\ db[part][k]["visibility"] = vis
        keys == SelectSeq(KeyOrder, Match)
    IN [i \in 1..Len(keys) |-> [id |-> keys[i], data |-> db[part][keys[i]]]]

\* setDoc(doc(database, part, key), data): full overwrite
SetDoc(db, part, key, data) ==
    [db EXCEPT ![part] =
        [k \in DOMAIN db[part] \cup {key} |->
            IF k = key THEN data ELSE db[part][k]]]

\* the record of one store operation issued by a call
ReadOp(part, key) == [kind |-> "getDoc", part |-> part, key |-> key]
QueryOp(part) == [kind |-> "getDocs", part |-> part, key |-> ""]
PutOp(part, key) == [kind |-> "setDoc", part |-> part, key |-> key]

(***************************************************************************)
(* Objects.                                                                *)
(***************************************************************************)
\* { ...a, ...b }: the keys of both, b's value where both have the key
Spread(a, b) ==
    [k \in DOMAIN a \cup DOMAIN b |-> IF k \in DOMAIN b THEN b[k] ELSE a[k]]

Undefined == "undefined"

\* data[field]
Get(data, f) == IF f \in DOMAIN data THEN data[f] ELSE Undefined

Range(s) == { s[i] : i \in 1..Len(s) }

\* fields.forEach(f => { if (data.hasOwnProperty(f)) selected[f] = data[f] })
PickFields(data, fields) ==
    [f \in Range(fields) \cap DOMAIN data |-> data[f]]

\* faulty variant: the fields option ignored
MutSelectFields(data, fields) == data

\* the projection of getProduct, getProducts, getProductsByIds, getCollection
SelectFields(data, fields) ==
    IF fields # <<>> THEN PickFields(data, fields) ELSE data

(***************************************************************************)
(* Results of a call.                                                      *)
(***************************************************************************)
Null == [kind |-> "null", val |-> <<>>]
Thrown == [kind |-> "error", val |-> <<>>]
Doc(obj) == [kind |-> "doc", val |-> obj]
List(items) == [kind |-> "list", val |-> items]

\* what a catalog read did: its result, the store operations it issued, and
\* the keys of the documents its result (or each element of it) was read from
Outcome(res, ops, src) == [result |-> res, ops |-> ops, src |-> src]

\* faulty variant: the failure caught, the call going on to its result
MutRejects(otherwise) == otherwise

\* an awaited store operation rejects.  No function of the layer has a
\* try/catch, so the call rejects too, whatever it would have returned
\* otherwise.
Rejects(otherwise) == Thrown

(***************************************************************************)
(* sortItems.                                                              *)
(***************************************************************************)
\* faulty variant: an item goes before the items it compares equal to
RECURSIVE MutInsertSorted(_, _, _)
MutInsertSorted(order, j, ks) ==
    IF order = <<>> THEN <<j>>
    ELSE IF ks[order[Len(order)]] < ks[j] THEN Append(order, j)
    ELSE Append(MutInsertSorted(SubSeq(order, 1, Len(order) - 1), j, ks),
                order[Len(order)])

\* one insertion of a stable sort: j goes after every item that does not
\* compare greater than it
RECURSIVE InsertSorted(_, _, _)
InsertSorted(order, j, ks) ==
    IF order = <<>> THEN <<j>>
    ELSE IF ks[order[Len(order)]] <= ks[j] THEN Append(order, j)
    ELSE Append(InsertSorted(SubSeq(order, 1, Len(order) - 1), j, ks),
                order[Len(order)])

RECURSIVE SortOrder(_, _)
SortOrder(ks, n) ==
    IF n = 0 THEN <<>> ELSE InsertSorted(SortOrder(ks, n - 1), n, ks)

\* faulty variant: the items left in the order the query gave them
MutSortPermutation(items, key, isDate) == [i \in 1..Len(items) |-> i]

\* the order Array.prototype.sort (stable) gives items under the comparator
\* of sortItems: b.time - a.time for a date key, a[key] - b[key] otherwise
SortPermutation(items, key, isDate) ==
    LET ks == [i \in 1..Len(items) |->
                  IF isDate THEN 0 - GetTime(items[i][key])
                  ELSE items[i][key]]
    IN SortOrder(ks, Len(items))

Permute(s, p) == [i \in 1..Len(p) |-> s[p[i]]]

sortItems(items, key, isDate) ==
    Permute(items, SortPermutation(items, key, isDate))

(***************************************************************************)
(* Single-entity fetch.                                                    *)
(***************************************************************************)
\* faulty variant: no early return on an empty id
MutFetchProjected(db, part, options) ==
    LET id == Str(Trim(options.id))
        fields == FilterStrings(options.fields)
        snapshot == GetDoc(db, part, id)
    IN IF ~snapshot.exists
       THEN Outcome(Null, <<ReadOp(part, id)>>, <<>>)
       ELSE Outcome(Doc(Spread([id |-> snapshot.id],
                               SelectFields(snapshot.data, fields))),
                    <<ReadOp(part, id)>>, <<snapshot.id>>)

\* the body shared, line for line, by getProduct and getCollection
FetchProjected(db, part, options) ==
    LET sanitizedOptions == sanitizeSingleItemOptions(options)
        id == sanitizedOptions.id
        fields == sanitizedOptions.fields
        snapshot == GetDoc(db, part, id)
    IN IF id = ""
       THEN Outcome(Null, <<>>, <<>>)
       ELSE IF ~snapshot.exists
       THEN Outcome(Null, <<ReadOp(part, id)>>, <<>>)
       ELSE Outcome(Doc(Spread([id |-> snapshot.id],
                               SelectFields(snapshot.data, fields))),
                    <<ReadOp(part, id)>>, <<snapshot.id>>)

getProduct(db, options) == FetchProjected(db, "products", options)

getCollection(db, options) == FetchProjected(db, "collections", options)

\* getUpsell takes the id as given: no sanitizer runs.  doc() rejects a
\* path with an empty segment, so the empty id ends in an error before any
\* lookup; every other id, blank ones included, is looked up.
getUpsell(db, options) ==
    LET id == Str(options.id)
        snapshot == GetDoc(db, "upsells", id)
        data == snapshot.data
        sortedProducts ==
            IF "products" \in DOMAIN data
            THEN sortItems(data["products"], "index", FALSE)
            ELSE <<>>
    IN IF id = ""
       THEN Outcome(Thrown, <<>>, <<>>)
       ELSE IF ~snapshot.exists
       THEN Outcome(Null, <<ReadOp("upsells", id)>>, <<>>)
       ELSE Outcome(Doc(Spread(Spread([id |-> snapshot.id], data),
                               [products |-> sortedProducts])),
                    <<ReadOp("upsells", id)>>, <<snapshot.id>>)

(***************************************************************************)
(* getProductWithUpsell: the pieces between its awaits.                    *)
(***************************************************************************)
\* faulty variant: only the absent product returns early
MutHasNoUpsell(product) == product.kind # "doc"

\* if (!product || !product.upsell) return product
HasNoUpsell(product) ==
    \/ product.kind # "doc"
    \/ Get(product.val, "upsell") \in {Undefined, ""}

\* what the callback of upsellData.products.map resolves to for one
\* reference, given the snapshot of the referenced product: null when the
\* product is absent, else the entry built from the reference and the product
UpsellEntry(productItem, productSnapshot) ==
    IF ~productSnapshot.exists
    THEN [isNull |-> TRUE, val |-> [f \in {} |-> ""]]
    ELSE LET productData == productSnapshot.data
         IN [isNull |-> FALSE,
             val |-> [index |-> productItem.index,
                      name |-> productItem.name,
                      id |-> Get(productData, "id"),
                      slug |-> Get(productData, "slug"),
                      mainImage |-> productData["images"]["main"],
                      basePrice |-> productData["pricing"]["basePrice"]]]

\* faulty variant: the values in the order the promises settled
MutPromiseAll(n, settled) == [i \in 1..n |-> settled[i].entry]

\* Promise.all over n promises, settled (all fulfilled) in the order of
\* `settled`: the values in the order of the promises
PromiseAll(n, settled) ==
    [i \in 1..n |->
        settled[CHOOSE k \in 1..Len(settled) : settled[k].j = i].entry]

NotNull(item) == ~item.isNull

\* { ...product, upsell: { ...upsellData, products: productsInUpsell.filter(
\*   item => item !== null) } }
WithUpsellDetails(product, upsellData, productsInUpsell) ==
    LET kept == SelectSeq(productsInUpsell, NotNull)
        upsellDetails ==
            Spread(upsellData,
                   [products |-> [i \in 1..Len(kept) |-> kept[i].val]])
    IN Spread(product, [upsell |-> upsellDetails])

(***************************************************************************)
(* List fetches.                                                           *)
(***************************************************************************)
Ids(docs) == [i \in 1..Len(docs) |-> docs[i].id]

\* the element getProducts and getProductsByIds build from one document
ProjectProduct(d, fields) ==
    Spread(Spread([id |-> d.id], SelectFields(d.data, fields)),
           [updatedAt |-> Get(d.data, "updatedAt"),
            visibility |-> Get(d.data, "visibility")])

\* faulty variant: no snapshot.empty test
MutListOrNull(docs, items, part, key, isDate) ==
    Outcome(List(sortItems(items, key, isDate)), <<QueryOp(part)>>,
            Permute(Ids(docs), SortPermutation(items, key, isDate)))

\* if (snapshot.empty) return null; ... return sortItems(items, key, isDate)
ListOrNull(docs, items, part, key, isDate) ==
    IF docs = <<>>
    THEN Outcome(Null, <<QueryOp(part)>>, <<>>)
    ELSE Outcome(List(sortItems(items, key, isDate)), <<QueryOp(part)>>,
                 Permute(Ids(docs), SortPermutation(items, key, isDate)))

getProducts(db, options) ==
    LET sanitizedOptions == sanitizeBaseOptions(options)
        fields == sanitizedOptions.fields
        visibility == sanitizedOptions.visibility
        docs == GetDocs(db, "products", FALSE, {},
                        Truthy(visibility), Str(visibility.chars))
        products == [i \in 1..Len(docs) |-> ProjectProduct(docs[i], fields)]
    IN ListOrNull(docs, products, "products", "updatedAt", TRUE)

getProductsByIds(db, options) ==
    LET sanitizedOptions == sanitizeMultiItemOptions(options)
        ids == sanitizedOptions.ids
        fields == sanitizedOptions.fields
        visibility == sanitizedOptions.visibility
        docs == GetDocs(db, "products", TRUE, Range(ids),
                        Truthy(visibility), Str(visibility.chars))
        products == [i \in 1..Len(docs) |-> ProjectProduct(docs[i], fields)]
    IN IF ids = <<>>
       THEN Outcome(Null, <<>>, <<>>)
       ELSE ListOrNull(docs, products, "products", "updatedAt", TRUE)

\* faulty variant: the fields of the product document win over the reference
MutExpandProducts(db, data) ==
    LET refs == IF "products" \in DOMAIN data THEN data["products"] ELSE <<>>
    IN [j \in 1..Len(refs) |->
          Spread([id |-> refs[j].id, index |-> refs[j].index],
                 GetDoc(db, "products", refs[j].id).data)]

\* the products expansion of one collection: one point lookup per reference,
\* { ...productDoc.data(), id: product.id, index: product.index }
ExpandProducts(db, data) ==
    LET refs == IF "products" \in DOMAIN data THEN data["products"] ELSE <<>>
    IN [j \in 1..Len(refs) |->
          Spread(GetDoc(db, "products", refs[j].id).data,
                 [id |-> refs[j].id, index |-> refs[j].index])]

ExpandReads(data) ==
    LET refs == IF "products" \in DOMAIN data THEN data["products"] ELSE <<>>
    IN [j \in 1..Len(refs) |-> ReadOp("products", refs[j].id)]

\* the element getCollections builds from one document
ProjectCollection(db, d, fields) ==
    LET picked == PickFields(d.data, fields)
        selectedFields ==
            IF "products" \in Range(fields)
            THEN Spread(picked, [products |-> ExpandProducts(db, d.data)])
            ELSE picked
    IN Spread(Spread([id |-> d.id], selectedFields),
              [updatedAt |-> Get(d.data, "updatedAt"),
               index |-> Get(d.data, "index"),
               visibility |-> Get(d.data, "visibility"),
               collectionType |-> Get(d.data, "collectionType")])

RECURSIVE Flatten(_)
Flatten(ss) == IF ss = <<>> THEN <<>> ELSE Head(ss) \o Flatten(Tail(ss))

\* No writer runs in the specification this read belongs to, so the point
\* lookups of the expansion all see the store the query saw.
getCollections(db, options) ==
    LET sanitizedOptions == sanitizeBaseOptions(options)
        fields == sanitizedOptions.fields
        visibility == sanitizedOptions.visibility
        docs == GetDocs(db, "collections", FALSE, {},
                        Truthy(visibility), Str(visibility.chars))
        collections ==
            [i \in 1..Len(docs) |-> ProjectCollection(db, docs[i], fields)]
        reads ==
            IF "products" \in Range(fields)
            THEN Flatten([i \in 1..Len(docs) |-> ExpandReads(docs[i].data)])
            ELSE <<>>
        listed == ListOrNull(docs, collections, "collections", "index", FALSE)
    IN [listed EXCEPT !.ops = @ \o reads]

\* { id: doc.id, ...doc.data() }
WithId(d) == Spread([id |-> d.id], d.data)

\* getUpsells sorts and returns whatever the query gave: it has no
\* snapshot.empty test
getUpsells(db) ==
    LET docs == GetDocs(db, "upsells", FALSE, {}, FALSE, "")
        upsells == [i \in 1..Len(docs) |-> WithId(docs[i])]
    IN Outcome(List(sortItems(upsells, "updatedAt", TRUE)),
               <<QueryOp("upsells")>>,
               Permute(Ids(docs), SortPermutation(upsells, "updatedAt", TRUE)))

getCategories(db) ==
    LET docs == GetDocs(db, "categories", FALSE, {}, FALSE, "")
        categories == [i \in 1..Len(docs) |-> WithId(docs[i])]
    IN ListOrNull(docs, categories, "categories", "index", FALSE)

(***************************************************************************)
(* The singletons.                                                         *)
(***************************************************************************)
defaultPageHero ==
    [images |-> [desktop |-> "", mobile |-> ""],
     title |-> "",
     destinationUrl |-> "",
     visibility |-> "HIDDEN"]

defaultSettings == [categorySection |-> [visibility |-> "HIDDEN"]]

\* a page hero an administrator saved
CustomPageHero ==
    [images |-> [desktop |-> "d.png", mobile |-> "m.png"],
     title |-> "Sale",
     destinationUrl |-> "/sale",
     visibility |-> "VISIBLE"]

\* the property names every plain object inherits from Object.prototype
ObjectPrototypeKeys ==
    {"constructor", "hasOwnProperty", "isPrototypeOf",
     "propertyIsEnumerable", "toLocaleString", "toString", "valueOf"}

\* stored contents of settings/defaultSettings: complete, without the
\* default key, with extra keys, with an extra key that names a member of
\* Object.prototype, with a categorySection that holds no visibility
SettingsDocs ==
    { [categorySection |-> [visibility |-> "HIDDEN"]],
      [categorySection |-> [visibility |-> "VISIBLE"]],
      [f \in {} |-> ""],
      [banner |-> "on"],
      [categorySection |-> [visibility |-> "VISIBLE"], banner |-> "on"],
      [categorySection |-> [visibility |-> "VISIBLE"], constructor |-> "on"],
      [categorySection |-> [f \in {} |-> ""]] }

\* key in obj: own and inherited properties alike
KeyIn(key, obj) == key \in DOMAIN obj \/ key \in ObjectPrototypeKeys

Restrict(obj, keys) == [k \in keys |-> obj[k]]

\* faulty variant: the document written back on every read
MutReconcileSettings(currentSettings) ==
    LET missing == { key \in DOMAIN defaultSettings :
                        ~KeyIn(key, currentSettings) }
        added == Spread(currentSettings, Restrict(defaultSettings, missing))
        extra == { key \in DOMAIN added : ~KeyIn(key, defaultSettings) }
    IN [doc |-> Restrict(added, DOMAIN added \ extra),
        needsUpdate |-> TRUE]

\* the two loops of getSettings over what it read: the document it will
\* return, and whether it has to be written back
ReconcileSettings(currentSettings) ==
    LET missing == { key \in DOMAIN defaultSettings :
                        ~KeyIn(key, currentSettings) }
        added == Spread(currentSettings, Restrict(defaultSettings, missing))
        extra == { key \in DOMAIN added : ~KeyIn(key, defaultSettings) }
    IN [doc |-> Restrict(added, DOMAIN added \ extra),
        needsUpdate |-> missing # {} \/ extra # {}]

\* faulty variant: a create-if-absent put
MutBootstrapPageHero(db) ==
    IF GetDoc(db, "pageHero", "homepageHero").exists
    THEN [db |-> db, puts |-> <<>>]
    ELSE [db |-> SetDoc(db, "pageHero", "homepageHero", defaultPageHero),
          puts |-> <<PutOp("pageHero", "homepageHero")>>]

\* await setDoc(documentRef, defaultPageHero): the store after it and the
\* puts it issued
BootstrapPageHero(db) ==
    [db |-> SetDoc(db, "pageHero", "homepageHero", defaultPageHero),
     puts |-> <<PutOp("pageHero", "homepageHero")>>]

\* faulty variant: the id left out of the returned document
MutReturnedPageHero(id, data) == data

\* { id: ..., ...data }
ReturnedPageHero(id, data) == Spread([id |-> id], data)

(***************************************************************************)
(* Callers and what they remember.                                         *)
(***************************************************************************)
Callers == {"a", "b"}

NoDoc == [f \in {} |-> ""]

Event(ev, op, by, absent) ==
    [ev |-> ev, op |-> op, by |-> by, absent |-> absent]

NumEvents(ev) == Cardinality({ i \in 1..Len(history) : history[i].ev = ev })

\* what a singleton call returned, with the partition as the call read it,
\* the partition as the call left it, and whether another actor wrote the
\* document in between
Returned(op, no, val, prior, after, interleaved) ==
    [op |-> op, no |-> no, val |-> val, prior |-> prior, after |-> after,
     interleaved |-> interleaved, threw |-> FALSE]

NoResult == Returned("none", 0, NoDoc, EmptyPartition, EmptyPartition, FALSE)

NoCall == [op |-> "none", args |-> <<>>, result |-> Null, ops |-> <<>>,
           src |-> <<>>, settled |-> <<>>, failed |-> 0]

\* no getProductWithUpsell call in flight
PwuIdle ==
    [pc |-> "idle", args |-> <<>>, product |-> Null, src |-> <<>>,
     ops |-> <<>>, upsellData |-> NoDoc, pending |-> {}, settled |-> <<>>]

\* the callers that are between the read and the put of a call on `part`
InFlight(part) ==
    { q \in Callers :
        \/ part = "pageHero" /\ pc[q] = "hero_put"
        \/ part = "settings" /\ pc[q] \in {"settings_put"} }

(***************************************************************************)
(* Inputs of the catalog reads.                                            *)
(***************************************************************************)
Padded(s) == <<" ">> \o s \o <<"\t">>

BlankIds == { << >>, <<" ">>, <<"\t", " ">> }

IdArgs(keys) == BlankIds \cup keys \cup { Padded(k) : k \in keys }

ProductIdArgs == IdArgs({ <<"p", "1">>, <<"p", "2">> })
CollectionIdArgs == IdArgs({ <<"k", "1">>, <<"k", "2">> })
UpsellIdArgs == IdArgs({ <<"u", "1">>, <<"u", "2">> })

FName == JsStr(<<"n", "a", "m", "e">>)
FId == JsStr(<<"i", "d">>)
FTitle == JsStr(<<"t", "i", "t", "l", "e">>)
FProducts == JsStr(<<"p", "r", "o", "d", "u", "c", "t", "s">>)
FUnknown == JsStr(<<"x">>)
FBlank == JsStr(<<" ">>)

FieldsArgs ==
    { JsNoArray,
      JsArray(<< >>),
      JsArray(<<JsOther, FBlank>>),
      JsArray(<<FName>>),
      JsArray(<<FId, FUnknown>>),
      JsArray(<<FBlank, FName, JsOther, FTitle, FName>>),
      JsArray(<<FProducts, FTitle>>) }

FUpsell == JsStr(<<"u", "p", "s", "e", "l", "l">>)

PwuFieldsArgs == { JsNoArray, JsArray(<<FName>>), JsArray(<<FUpsell, FName>>) }

FewFieldsArgs == { JsNoArray, JsArray(<<FName>>), JsArray(<<FId, FUnknown>>) }

VisibilityArgs ==
    { JsOther,
      JsStr(<< >>),
      JsStr(<<"P", "U", "B", "L", "I", "S", "H", "E", "D">>),
      JsStr(<<"p", "u", "b", "l", "i", "s", "h", "e", "d">>),
      JsStr(<<"D", "r", "a", "f", "t">>),
      JsStr(<<"H", "I", "D", "D", "E", "N">>),
      JsStr(<<"b", "o", "g", "u", "s">>) }

IdP1 == JsStr(<<"p", "1">>)
IdP2 == JsStr(<<"p", "2">>)

IdsArgs ==
    { JsNoArray,
      JsArray(<< >>),
      JsArray(<<FBlank, JsOther, JsStr(<< >>)>>),
      JsArray(<<IdP1>>),
      JsArray(<<IdP1, IdP2>>),
      JsArray(<<IdP2, IdP2>>),
      JsArray(<<JsOther, IdP2, JsStr(Padded(<<"p", "1">>)), IdP2>>),
      JsArray(<<JsStr(<<"k", "1">>), FBlank, IdP1, IdP1>>) }

(***************************************************************************)
(* Initial stores.                                                         *)
(***************************************************************************)
NumDocs(db) ==
    Cardinality(DOMAIN db.products) + Cardinality(DOMAIN db.collections)
    + Cardinality(DOMAIN db.upsells) + Cardinality(DOMAIN db.categories)

CatalogStores ==
    { db \in [products : PartialFns(ProductKeys, ProductDocs),
              collections : PartialFns(CollectionKeys, CollectionDocs),
              upsells : PartialFns(UpsellKeys, UpsellDocs),
              categories : PartialFns(CategoryKeys, CategoryDocs),
              pageHero : {EmptyPartition},
              settings : {EmptyPartition}] :
        NumDocs(db) <= MaxDocs }

\* the stores getProductWithUpsell runs on: any products, and at most the
\* upsell the third product document names
UpsellStores ==
    [products : PartialFns(ProductKeys, ProductDocs),
     collections : {EmptyPartition},
     upsells : PartialFns({"u1"}, UpsellDocs),
     categories : {EmptyPartition},
     pageHero : {EmptyPartition},
     settings : {EmptyPartition}]

\* the stores the failures are injected on: a catalog in which every read
\* finds something, with the two singleton documents present or absent
FailStores ==
    [products :
        {[k \in ProductKeys |->
             CHOOSE d \in ProductDocs :
                 d.name = IF k = "p1" THEN "A" ELSE "C"]},
     collections :
        {[k \in {"k1"} |-> CHOOSE d \in CollectionDocs : d.title = "Sale"]},
     upsells :
        {[k \in {"u1"} |-> CHOOSE d \in UpsellDocs : "products" \in DOMAIN d]},
     categories :
        {[k \in {"g1"} |-> CHOOSE d \in CategoryDocs : d.name = "Tops"]},
     pageHero : PartialFns({"homepageHero"}, {CustomPageHero}),
     settings : PartialFns({"defaultSettings"}, {[banner |-> "on"]})]

\* a catalog in which every read finds something, with every content of
\* the two singleton documents
AllStores ==
    [products : {db.products : db \in FailStores},
     collections : {db.collections : db \in FailStores},
     upsells : {db.upsells : db \in FailStores},
     categories : {db.categories : db \in FailStores},
     pageHero : PartialFns({"homepageHero"}, {CustomPageHero}),
     settings : PartialFns({"defaultSettings"}, SettingsDocs)]

PageHeroStores ==
    [products : {EmptyPartition},
     collections : {EmptyPartition},
     upsells : {EmptyPartition},
     categories : {EmptyPartition},
     pageHero : PartialFns({"homepageHero"},
                           {defaultPageHero, CustomPageHero}),
     settings : {EmptyPartition}]

SettingsStores ==
    [products : {EmptyPartition},
     collections : {EmptyPartition},
     upsells : {EmptyPartition},
     categories : {EmptyPartition},
     pageHero : {EmptyPartition},
     settings : PartialFns({"defaultSettings"}, SettingsDocs)]

InitWith(stores) ==
    /\ store \in stores
    /\ store0 = store
    /\ call = NoCall
    /\ pc = [p \in Callers |-> "idle"]
    /\ local = [p \in Callers |-> [doc |-> NoDoc, prior |-> EmptyPartition]]
    /\ result = [p \in Callers |-> NoResult]
    /\ callNo = [p \in Callers |-> 0]
    /\ stale = [p \in Callers |-> FALSE]
    /\ history = << >>
    /\ pwu = PwuIdle

(***************************************************************************)
(* The catalog reads, one action per exported function.                    *)
(***************************************************************************)
singletonVars == <<pc, local, result, callNo, stale, history>>

Completed(op, args, outcome) ==
    /\ call = NoCall
    /\ pwu.pc = "idle"
    /\ call' = [op |-> op, args |-> args, result |-> outcome.result,
                ops |-> outcome.ops, src |-> outcome.src, settled |-> <<>>,
                failed |-> 0]
    /\ UNCHANGED <<store, store0, singletonVars, pwu>>

GetProduct ==
    \E id \in ProductIdArgs, fields \in FieldsArgs :
        LET options == [id |-> id, fields |-> fields]
        IN Completed("getProduct", options, getProduct(store, options))

GetCollection ==
    \E id \in CollectionIdArgs, fields \in FieldsArgs :
        LET options == [id |-> id, fields |-> fields]
        IN Completed("getCollection", options, getCollection(store, options))

GetUpsell ==
    \E id \in UpsellIdArgs :
        LET options == [id |-> id]
        IN Completed("getUpsell", options, getUpsell(store, options))

GetProducts ==
    \E fields \in FieldsArgs, visibility \in VisibilityArgs :
        LET options == [fields |-> fields, visibility |-> visibility]
        IN Completed("getProducts", options, getProducts(store, options))

GetProductsByIds ==
    \E ids \in IdsArgs, fields \in FewFieldsArgs,
       visibility \in VisibilityArgs :
        LET options == [ids |-> ids, fields |-> fields,
                        visibility |-> visibility]
        IN Completed("getProductsByIds", options,
                     getProductsByIds(store, options))

GetCollections ==
    \E fields \in FieldsArgs, visibility \in VisibilityArgs :
        LET options == [fields |-> fields, visibility |-> visibility]
        IN Completed("getCollections", options,
                     getCollections(store, options))

GetUpsells == Completed("getUpsells", << >>, getUpsells(store))

GetCategories == Completed("getCategories", << >>, getCategories(store))

\* the caller takes the result; the repository keeps nothing between calls
Return ==
    /\ call # NoCall
    /\ call' = NoCall
    /\ UNCHANGED <<store, store0, singletonVars, pwu>>

(***************************************************************************)
(* getProductWithUpsell, one action per stretch between two awaits.        *)
(***************************************************************************)
\* the call returns (or rejects): the caller has the result
PwuReturns(args, res, ops, src, settled) ==
    /\ call' = [op |-> "getProductWithUpsell", args |-> args, result |-> res,
                ops |-> ops, src |-> src, settled |-> settled, failed |-> 0]
    /\ pwu' = PwuIdle

\* from the call, through getProduct, to the early return or to the await of
\* the upsell lookup
PwuGetProduct ==
    \E id \in ProductIdArgs, fields \in PwuFieldsArgs :
        LET options == [id |-> id, fields |-> fields]
            got == getProduct(store, options)
            product == got.result
        IN /\ call = NoCall
           /\ pwu.pc = "idle"
           /\ IF HasNoUpsell(product)
              THEN PwuReturns(options, product, got.ops, got.src, << >>)
              ELSE /\ pwu' = [PwuIdle EXCEPT
                               !.pc = "upsell",
                               !.args = options,
                               !.product = product,
                               !.src = got.src,
                               !.ops = Append(got.ops,
                                   ReadOp("upsells", Get(product.val, "upsell")))]
                   /\ UNCHANGED call
           /\ UNCHANGED <<store, store0, singletonVars>>

\* the upsell snapshot arrives: the early return, or one product lookup
\* issued per stored reference.  upsellData.products.map on a document
\* without a products field is a TypeError.
PwuGetUpsell ==
    LET upsellSnapshot == GetDoc(store, "upsells", Get(pwu.product.val, "upsell"))
        upsellData == upsellSnapshot.data
    IN /\ pwu.pc = "upsell"
       /\ IF ~upsellSnapshot.exists
          THEN PwuReturns(pwu.args, pwu.product, pwu.ops, pwu.src, << >>)
          ELSE IF "products" \notin DOMAIN upsellData
          THEN PwuReturns(pwu.args, Thrown, pwu.ops, << >>, << >>)
          ELSE /\ pwu' = [pwu EXCEPT
                           !.pc = "fanout",
                           !.upsellData = upsellData,
                           !.pending = 1..Len(upsellData["products"]),
                           !.ops = pwu.ops \o
                               [j \in 1..Len(upsellData["products"]) |->
                                   ReadOp("products",
                                          upsellData["products"][j].id)]]
               /\ UNCHANGED call
       /\ UNCHANGED <<store, store0, singletonVars>>

\* one product lookup of the fan-out settles, in any order
PwuGetUpsellProduct ==
    \E j \in pwu.pending :
        LET productItem == pwu.upsellData["products"][j]
            productSnapshot == GetDoc(store, "products", productItem.id)
        IN /\ pwu.pc = "fanout"
           /\ pwu' = [pwu EXCEPT
                         !.pending = @ \ {j},
                         !.settled = Append(@,
                             [j |-> j,
                              entry |-> UpsellEntry(productItem,
                                                    productSnapshot)])]
           /\ UNCHANGED <<store, store0, call, singletonVars>>

\* every lookup has settled: Promise.all resolves and the call returns
PwuAssemble ==
    LET n == Len(pwu.upsellData["products"])
        productsInUpsell == PromiseAll(n, pwu.settled)
    IN /\ pwu.pc = "fanout"
       /\ pwu.pending = {}
       /\ PwuReturns(pwu.args,
                     Doc(WithUpsellDetails(pwu.product.val, pwu.upsellData,
                                           productsInUpsell)),
                     pwu.ops, pwu.src,
                     [i \in 1..Len(pwu.settled) |-> pwu.settled[i].j])
       /\ UNCHANGED <<store, store0, singletonVars>>

(***************************************************************************)
(* The singleton bootstraps, one action per stretch between two awaits.    *)
(***************************************************************************)
MarkStale(part, writer) ==
    stale' = [q \in Callers |->
                 IF q = writer THEN FALSE
                 ELSE stale[q] \/ q \in InFlight(part)]

\* getPageHero up to its return or to its await of setDoc
HeroRead(p) ==
    LET snapshot == GetDoc(store, "pageHero", "homepageHero")
        no == NumEvents("read") + 1
    IN /\ pc[p] = "idle"
       /\ NumEvents("read") < MaxCalls
       /\ callNo' = [callNo EXCEPT ![p] = no]
       /\ stale' = [stale EXCEPT ![p] = FALSE]
       /\ history' = Append(history,
                            Event("read", "getPageHero", no, ~snapshot.exists))
       /\ local' = [local EXCEPT ![p] =
                        [doc |-> defaultPageHero, prior |-> store.pageHero]]
       /\ IF snapshot.exists
          THEN /\ result' = [result EXCEPT ![p] =
                     Returned("getPageHero", no,
                              ReturnedPageHero(snapshot.id, snapshot.data),
                              store.pageHero, store.pageHero, FALSE)]
               /\ UNCHANGED pc
          ELSE /\ pc' = [pc EXCEPT ![p] = "hero_put"]
               /\ UNCHANGED result
       /\ UNCHANGED <<store, store0, call, pwu>>

\* getPageHero from its setDoc to its return
HeroPut(p) ==
    LET done == BootstrapPageHero(store)
    IN /\ pc[p] = "hero_put"
       /\ store' = done.db
       /\ history' = history \o
              [i \in 1..Len(done.puts) |->
                  Event("put", "getPageHero", callNo[p], FALSE)]
       /\ result' = [result EXCEPT ![p] =
              Returned("getPageHero", callNo[p],
                       ReturnedPageHero("homepageHero", defaultPageHero),
                       local[p].prior, done.db.pageHero, stale[p])]
       /\ pc' = [pc EXCEPT ![p] = "idle"]
       /\ MarkStale("pageHero", p)
       /\ UNCHANGED <<store0, call, pwu, local, callNo>>

\* getSettings up to its return or to its await of setDoc
SettingsRead(p) ==
    LET snapshot == GetDoc(store, "settings", "defaultSettings")
        no == NumEvents("read") + 1
        reconciled == ReconcileSettings(snapshot.data)
        toPut == IF snapshot.exists THEN reconciled.doc ELSE defaultSettings
    IN /\ pc[p] = "idle"
       /\ NumEvents("read") < MaxCalls
       /\ callNo' = [callNo EXCEPT ![p] = no]
       /\ stale' = [stale EXCEPT ![p] = FALSE]
       /\ history' = Append(history,
                            Event("read", "getSettings", no, ~snapshot.exists))
       /\ local' = [local EXCEPT ![p] =
                        [doc |-> toPut, prior |-> store.settings]]
       /\ IF snapshot.exists /\ ~reconciled.needsUpdate
          THEN /\ result' = [result EXCEPT ![p] =
                     Returned("getSettings", no, reconciled.doc,
                              store.settings, store.settings, FALSE)]
               /\ UNCHANGED pc
          ELSE /\ pc' = [pc EXCEPT ![p] = "settings_put"]
               /\ UNCHANGED result
       /\ UNCHANGED <<store, store0, call, pwu>>

\* getSettings from its setDoc (of the default, or of the reconciled
\* document) to its return
SettingsPut(p) ==
    LET after == SetDoc(store, "settings", "defaultSettings", local[p].doc)
    IN /\ pc[p] = "settings_put"
       /\ store' = after
       /\ history' = Append(history,
                            Event("put", "getSettings", callNo[p], FALSE))
       /\ result' = [result EXCEPT ![p] =
              Returned("getSettings", callNo[p], local[p].doc,
                       local[p].prior, after.settings, stale[p])]
       /\ pc' = [pc EXCEPT ![p] = "idle"]
       /\ MarkStale("settings", p)
       /\ UNCHANGED <<store0, call, pwu, local, callNo>>

\* the external actor (an admin action) overwrites the page hero
AdminWritePageHero ==
    /\ NumEvents("admin") < MaxAdminWrites
    /\ \E doc \in {CustomPageHero, defaultPageHero} :
          store' = SetDoc(store, "pageHero", "homepageHero", doc)
    /\ history' = Append(history, Event("admin", "pageHero", 0, FALSE))
    /\ stale' = [q \in Callers |-> stale[q] \/ q \in InFlight("pageHero")]
    /\ UNCHANGED <<store0, call, pwu, pc, local, result, callNo>>

\* the external actor (an admin action) overwrites the settings
AdminWriteSettings ==
    /\ NumEvents("admin") < MaxAdminWrites
    /\ \E doc \in SettingsDocs :
          store' = SetDoc(store, "settings", "defaultSettings", doc)
    /\ history' = Append(history, Event("admin", "settings", 0, FALSE))
    /\ stale' = [q \in Callers |-> stale[q] \/ q \in InFlight("settings")]
    /\ UNCHANGED <<store0, call, pwu, pc, local, result, callNo>>

(***************************************************************************)
(* Store failures: an awaited store operation rejects.                     *)
(***************************************************************************)
\* the k-th store operation of a catalog read rejects.  The lookups of the
\* products expansion of getCollections are all issued before one settles.
Failed(op, args, outcome) ==
    /\ call = NoCall
    /\ pwu.pc = "idle"
    /\ \E k \in 1..Len(outcome.ops) :
          call' = [op |-> op, args |-> args,
                   result |-> Rejects(outcome.result),
                   ops |-> IF k = 1 THEN <<outcome.ops[1]>> ELSE outcome.ops,
                   src |-> << >>, settled |-> << >>, failed |-> k]
    /\ UNCHANGED <<store, store0, singletonVars, pwu>>

CatalogReadFails ==
    \/ \E id \in ProductIdArgs, fields \in FewFieldsArgs :
          LET options == [id |-> id, fields |-> fields]
          IN Failed("getProduct", options, getProduct(store, options))
    \/ \E id \in CollectionIdArgs, fields \in FewFieldsArgs :
          LET options == [id |-> id, fields |-> fields]
          IN Failed("getCollection", options, getCollection(store, options))
    \/ \E id \in UpsellIdArgs :
          LET options == [id |-> id]
          IN Failed("getUpsell", options, getUpsell(store, options))
    \/ \E fields \in FewFieldsArgs, visibility \in VisibilityArgs :
          LET options == [fields |-> fields, visibility |-> visibility]
          IN Failed("getProducts", options, getProducts(store, options))
    \/ \E ids \in IdsArgs, fields \in FewFieldsArgs,
          visibility \in VisibilityArgs :
          LET options == [ids |-> ids, fields |-> fields,
                          visibility |-> visibility]
          IN Failed("getProductsByIds", options,
                    getProductsByIds(store, options))
    \/ \E fields \in FieldsArgs, visibility \in VisibilityArgs :
          LET options == [fields |-> fields, visibility |-> visibility]
          IN Failed("getCollections", options, getCollections(store, options))
    \/ Failed("getUpsells", << >>, getUpsells(store))
    \/ Failed("getCategories", << >>, getCategories(store))

\* getProductWithUpsell rejects on the k-th store operation it issued
PwuRejects(args, otherwise, ops, settled, k) ==
    /\ call' = [op |-> "getProductWithUpsell", args |-> args,
                result |-> Rejects(otherwise), ops |-> ops, src |-> << >>,
                settled |-> settled, failed |-> k]
    /\ pwu' = PwuIdle
    /\ UNCHANGED <<store, store0, singletonVars>>

\* the lookup inside getProduct rejects
PwuGetProductFails ==
    \E id \in ProductIdArgs, fields \in PwuFieldsArgs :
        LET options == [id |-> id, fields |-> fields]
            got == getProduct(store, options)
        IN /\ call = NoCall
           /\ pwu.pc = "idle"
           /\ got.ops # << >>
           /\ PwuRejects(options, got.result, got.ops, << >>, 1)

\* the upsell lookup rejects
PwuGetUpsellFails ==
    /\ pwu.pc = "upsell"
    /\ PwuRejects(pwu.args, pwu.product, pwu.ops, << >>, Len(pwu.ops))

\* one product lookup of the fan-out rejects: Promise.all rejects at once,
\* whatever the other lookups did or will do
PwuGetUpsellProductFails ==
    \E j \in pwu.pending :
        /\ pwu.pc = "fanout"
        /\ PwuRejects(pwu.args, pwu.product, pwu.ops,
                      [i \in 1..Len(pwu.settled) |-> pwu.settled[i].j],
                      2 + j)

SingletonPartition(op) ==
    IF op = "getPageHero" THEN "pageHero" ELSE "settings"

\* what a singleton call that rejected left its caller with
RejectedCall(op, no, otherwise, prior, after) ==
    LET r == Rejects(Doc(otherwise))
    IN [op |-> op, no |-> no, val |-> r.val, prior |-> prior,
        after |-> after, interleaved |-> FALSE, threw |-> r.kind = "error"]

\* the getDoc of getPageHero or getSettings rejects
SingletonReadFails(p) ==
    \E op \in {"getPageHero", "getSettings"} :
        LET no == NumEvents("read") + 1
            part == store[SingletonPartition(op)]
        IN /\ pc[p] = "idle"
           /\ NumEvents("read") < MaxCalls
           /\ callNo' = [callNo EXCEPT ![p] = no]
           /\ history' = history \o <<Event("read", op, no, FALSE),
                                       Event("fail", op, no, FALSE)>>
           /\ result' = [result EXCEPT ![p] =
                  RejectedCall(op, no,
                               IF op = "getPageHero" THEN defaultPageHero
                               ELSE defaultSettings,
                               part, part)]
           /\ UNCHANGED <<store, store0, call, pwu, pc, local, stale>>

\* the setDoc of getPageHero or getSettings rejects: nothing is written
SingletonPutFails(p) ==
    LET op == IF pc[p] = "hero_put" THEN "getPageHero" ELSE "getSettings"
    IN /\ pc[p] \in {"hero_put", "settings_put"}
       /\ history' = Append(history, Event("fail", op, callNo[p], FALSE))
       /\ result' = [result EXCEPT ![p] =
              RejectedCall(op, callNo[p], local[p].doc, local[p].prior,
                           store[SingletonPartition(op)])]
       /\ pc' = [pc EXCEPT ![p] = "idle"]
       /\ UNCHANGED <<store, store0, call, pwu, local, callNo, stale>>

(***************************************************************************)
(* Specifications.                                                         *)
(***************************************************************************)
Init == InitWith(CatalogStores)

Next ==
    \/ GetProduct
    \/ GetCollection
    \/ GetUpsell
    \/ GetProducts
    \/ GetProductsByIds
    \/ GetCollections
    \/ GetUpsells
    \/ GetCategories
    \/ Return

\* the catalog reads over every initial store
Spec == Init /\ [][Next]_vars

InitUpsell == InitWith(UpsellStores)

NextUpsell ==
    \/ PwuGetProduct
    \/ PwuGetUpsell
    \/ PwuGetUpsellProduct
    \/ PwuAssemble
    \/ Return

\* getProductWithUpsell, its product lookups settling in every order
SpecUpsell == InitUpsell /\ [][NextUpsell]_vars

InitFail == InitWith(FailStores)

\* one operation at a time: a catalog read starts while no singleton call
\* has been made, a singleton call while no catalog read is under way
CatalogTurn == history = << >>

SingletonTurn == call = NoCall /\ pwu.pc = "idle"

NextFail ==
    \/ CatalogTurn /\ CatalogReadFails
    \/ CatalogTurn /\ PwuGetProduct
    \/ CatalogTurn /\ PwuGetProductFails
    \/ PwuGetUpsell
    \/ PwuGetUpsellFails
    \/ PwuGetUpsellProduct
    \/ PwuGetUpsellProductFails
    \/ PwuAssemble
    \/ Return
    \/ SingletonTurn /\ HeroRead("a")
    \/ SingletonTurn /\ SettingsRead("a")
    \/ SingletonTurn /\ SingletonReadFails("a")
    \/ HeroPut("a")
    \/ SettingsPut("a")
    \/ SingletonPutFails("a")

\* every exported operation with store operations that may reject
SpecFail == InitFail /\ [][NextFail]_vars

InitAll == InitWith(AllStores)

NextAll ==
    \/ CatalogTurn /\ GetProduct
    \/ CatalogTurn /\ GetCollection
    \/ CatalogTurn /\ GetUpsell
    \/ CatalogTurn /\ GetProducts
    \/ CatalogTurn /\ GetProductsByIds
    \/ CatalogTurn /\ GetCollections
    \/ CatalogTurn /\ GetUpsells
    \/ CatalogTurn /\ GetCategories
    \/ CatalogTurn /\ PwuGetProduct
    \/ PwuGetUpsell
    \/ PwuGetUpsellProduct
    \/ PwuAssemble
    \/ Return
    \/ \E p \in Callers : SingletonTurn /\ HeroRead(p)
    \/ \E p \in Callers : SingletonTurn /\ SettingsRead(p)
    \/ \E p \in Callers : HeroPut(p)
    \/ \E p \in Callers : SettingsPut(p)

\* every exported operation, the singleton calls by concurrent callers
SpecAll == InitAll /\ [][NextAll]_vars

InitPageHero == InitWith(PageHeroStores)

NextPageHero ==
    \/ \E p \in Callers : HeroRead(p)
    \/ \E p \in Callers : HeroPut(p)
    \/ AdminWritePageHero

\* concurrent callers of getPageHero and the external writer
SpecPageHero == InitPageHero /\ [][NextPageHero]_vars

InitSettings == InitWith(SettingsStores)

NextSettings ==
    \/ \E p \in Callers : SettingsRead(p)
    \/ \E p \in Callers : SettingsPut(p)
    \/ AdminWriteSettings

\* concurrent callers of getSettings and the external writer
SpecSettings == InitSettings /\ [][NextSettings]_vars

(***************************************************************************)
(* What the claims speak of, stated from the inputs and the store alone.   *)
(***************************************************************************)
\* a string that is empty or holds nothing but white space
AllBlank(s) == \A i \in 1..Len(s) : s[i] \in WhiteSpace

\* the usable entries of a fields / ids option: its non-blank strings
Requested(arr) ==
    IF arr.isArray
    THEN { Str(arr.items[i].chars) :
             i \in { j \in 1..Len(arr.items) :
                       /\ arr.items[j].isString
                       /\ ~AllBlank(arr.items[j].chars) } }
    ELSE {}

\* the documents of a partition that an equality filter on visibility keeps
\* (every document when the filter is not a non-empty string)
Visible(part, v) ==
    { k \in DOMAIN store[part] :
        Truthy(v) => Get(store[part][k], "visibility") = Str(v.chars) }

\* the filter getProductsByIds is to apply: the upper-cased visibility when
\* that is one of the three flags, none otherwise
UpperFlag(v) ==
    IF v.isString /\ Str(ToUpperCase(v.chars)) \in {"DRAFT", "PUBLISHED", "HIDDEN"}
    THEN JsStr(ToUpperCase(v.chars))
    ELSE JsOther

\* the products getProductsByIds is to return for the last call's options
WantedByIds ==
    Visible("products", UpperFlag(call.args.visibility))
    \cap Requested(call.args.ids)

PartitionOf(op) ==
    CASE op = "getProduct" -> "products"
      [] op = "getProducts" -> "products"
      [] op = "getProductsByIds" -> "products"
      [] op = "getCollection" -> "collections"
      [] op = "getCollections" -> "collections"
      [] op = "getUpsell" -> "upsells"
      [] op = "getUpsells" -> "upsells"
      [] op = "getCategories" -> "categories"

HomepageHeroDefault ==
    [id |-> "homepageHero",
     images |-> [desktop |-> "", mobile |-> ""],
     title |-> "",
     destinationUrl |-> "",
     visibility |-> "HIDDEN"]

Events(ev, op) ==
    { i \in 1..Len(history) : history[i].ev = ev /\ history[i].op = op }

\* a getPageHero call read the document while another one, which had read
\* it as absent, had not yet put
HeroOverlap ==
    \E i \in Events("read", "getPageHero"),
       j \in Events("read", "getPageHero") :
        /\ i < j
        /\ history[i].absent
        /\ ~\E k \in Events("put", "getPageHero") :
               k < j /\ history[k].by = history[i].by

\* no getPageHero call overlapped another, nobody else wrote the document,
\* and it did not exist at the start
HeroSequentialFromAbsent ==
    /\ DOMAIN store0.pageHero = {}
    /\ Events("admin", "pageHero") = {}
    /\ ~HeroOverlap

(***************************************************************************)
(* C1. After a getSettings call that ran with no other writer in between,  *)
(* the stored settings document has exactly the keys of the default        *)
(* schema, the call returned the stored document, and a default key that   *)
(* was missing is there with its default value.                            *)
(***************************************************************************)
C1_SettingsReconciled ==
    \A p \in Callers :
        (result[p].op = "getSettings" /\ ~result[p].interleaved) =>
            /\ "defaultSettings" \in DOMAIN result[p].after
            /\ DOMAIN result[p].after["defaultSettings"] = {"categorySection"}
            /\ result[p].val = result[p].after["defaultSettings"]
            /\ ( \/ "defaultSettings" \notin DOMAIN result[p].prior
                 \/ "categorySection" \notin
                        DOMAIN result[p].prior["defaultSettings"] )
               => result[p].val["categorySection"] = [visibility |-> "HIDDEN"]

\* The same statement for the stored contents none of whose keys names a
\* member of Object.prototype: there the reconciliation does what C1 says.
SettingsReconciledForOwnNames ==
    \A p \in Callers :
        ( /\ result[p].op = "getSettings"
          /\ ~result[p].interleaved
          /\ \A k \in DOMAIN result[p].prior :
                DOMAIN result[p].prior[k] \cap ObjectPrototypeKeys = {} )
        => /\ "defaultSettings" \in DOMAIN result[p].after
           /\ DOMAIN result[p].after["defaultSettings"] = {"categorySection"}
           /\ result[p].val = result[p].after["defaultSettings"]

(***************************************************************************)
(* C2. From an absent page hero, with sequential calls and no other        *)
(* writer: at most one put is ever made; once a call has returned there is *)
(* exactly one, made by the first call; and every call returns the default *)
(* document with id "homepageHero".                                        *)
(***************************************************************************)
C2_HeroBootstrapOnce ==
    HeroSequentialFromAbsent =>
        /\ Cardinality(Events("put", "getPageHero")) <= 1
        /\ \A p \in Callers :
             result[p].op = "getPageHero" =>
                /\ result[p].val = HomepageHeroDefault
                /\ \E k \in Events("put", "getPageHero") :
                      \A i \in Events("read", "getPageHero") :
                          history[i].by >= history[k].by

C2_Witness ==
    /\ HeroSequentialFromAbsent
    /\ \A p \in Callers : result[p].op = "getPageHero"
    /\ result["a"].no # result["b"].no
    /\ Cardinality(Events("read", "getPageHero")) >= 3
    /\ Cardinality(Events("put", "getPageHero")) = 1

(***************************************************************************)
(* C3. The default put of getPageHero is unconditional: every call that    *)
(* read the document as absent and is no longer in flight has made exactly *)
(* one put, whatever the store held by then; so two overlapping first      *)
(* calls put twice.                                                        *)
(***************************************************************************)
C3_AbsentReadAlwaysPuts ==
    \A i \in Events("read", "getPageHero") :
        ( /\ history[i].absent
          /\ ~\E p \in Callers :
                 pc[p] = "hero_put" /\ callNo[p] = history[i].by )
        => Cardinality({ k \in Events("put", "getPageHero") :
                            history[k].by = history[i].by }) = 1

C3_Witness ==
    /\ DOMAIN store0.pageHero = {}
    /\ Events("admin", "pageHero") = {}
    /\ HeroOverlap
    /\ \E i, j \in Events("read", "getPageHero") :
          /\ i < j /\ history[i].absent /\ history[j].absent
          /\ \E k, l \in Events("put", "getPageHero") :
                /\ j < k /\ k < l
                /\ {history[k].by, history[l].by}
                     = {history[i].by, history[j].by}
                /\ history[k].by # history[l].by
    /\ store.pageHero["homepageHero"] = defaultPageHero

(***************************************************************************)
(* C4. getProduct and getCollection with an id that is blank, and          *)
(* getProductsByIds with ids that hold no non-blank string, return null    *)
(* and issue no store operation.                                           *)
(***************************************************************************)
C4_BlankIdNoStoreCall ==
    /\ (call.op \in {"getProduct", "getCollection"} /\ AllBlank(call.args.id))
       => (call.result.kind = "null" /\ call.ops = << >>)
    /\ (call.op = "getProductsByIds" /\ Requested(call.args.ids) = {})
       => (call.result.kind = "null" /\ call.ops = << >>)

C4_Witness ==
    /\ call.op = "getProductsByIds"
    /\ call.args.ids.isArray
    /\ Len(call.args.ids.items) >= 2
    /\ Requested(call.args.ids) = {}
    /\ DOMAIN store.products # {}
    /\ call.result.kind = "null"
    /\ call.ops = << >>

(***************************************************************************)
(* C5. getUpsell with a blank id returns null, raises no error and issues  *)
(* no store lookup.                                                        *)
(***************************************************************************)
C5_UpsellBlankIdIsNull ==
    (call.op = "getUpsell" /\ AllBlank(call.args.id))
    => (call.result.kind = "null" /\ call.ops = << >>)

(***************************************************************************)
(* C6. getProduct and getCollection on an existing document with a         *)
(* non-empty sanitized fields list return exactly id plus the requested    *)
(* fields the document has, each with its stored value.                    *)
(***************************************************************************)
C6_ProjectionExact ==
    ( /\ call.op \in {"getProduct", "getCollection"}
      /\ Str(Trim(call.args.id)) \in DOMAIN store[PartitionOf(call.op)]
      /\ Requested(call.args.fields) # {} )
    => LET stored == store[PartitionOf(call.op)][Str(Trim(call.args.id))]
           wanted == Requested(call.args.fields) \cap DOMAIN stored
       IN /\ call.result.kind = "doc"
          /\ DOMAIN call.result.val = {"id"} \cup wanted
          /\ \A f \in wanted : call.result.val[f] = stored[f]

C6_Witness ==
    /\ call.op = "getCollection"
    /\ call.result.kind = "doc"
    /\ Requested(call.args.fields) = {"name", "title"}
    /\ DOMAIN call.result.val = {"id", "title"}
    /\ call.result.val["title"] = "Sale"
    /\ call.args.id # Trim(call.args.id)

(***************************************************************************)
(* C7. The id of every returned entity is the key of the document it was   *)
(* read from.                                                              *)
(***************************************************************************)
C7_IdIsDocumentKey ==
    /\ ( /\ call.op \in {"getProduct", "getCollection", "getUpsell"}
         /\ call.result.kind = "doc" )
       => call.result.val["id"] = call.src[1]
    /\ ( /\ call.op \in {"getProducts", "getProductsByIds", "getCollections"}
         /\ call.result.kind = "list" )
       => \A i \in 1..Len(call.result.val) :
             call.result.val[i]["id"] = call.src[i]

(***************************************************************************)
(* C8. getProducts, getCollections, getCategories and getProductsByIds     *)
(* return null or a list with at least one element, and null when no       *)
(* document matches.                                                       *)
(***************************************************************************)
C8_NullNotEmptyList ==
    call.op \in {"getProducts", "getCollections", "getCategories",
                 "getProductsByIds"}
    => /\ \/ call.result.kind = "null"
          \/ call.result.kind = "list" /\ Len(call.result.val) >= 1
       /\ LET matching ==
                CASE call.op = "getCategories" -> DOMAIN store.categories
                  [] call.op = "getProductsByIds" -> WantedByIds
                  [] OTHER -> Visible(PartitionOf(call.op),
                                      call.args.visibility)
          IN matching = {} => call.result.kind = "null"

C8_Witness ==
    /\ call.op = "getProducts"
    /\ Cardinality(DOMAIN store.products) = 2
    /\ Str(call.args.visibility.chars) = "HIDDEN"
    /\ call.result.kind = "null"
    /\ call.ops = <<QueryOp("products")>>

(***************************************************************************)
(* C9. getUpsells returns null when the upsells partition is empty.        *)
(***************************************************************************)
C9_UpsellsNullWhenEmpty ==
    (call.op = "getUpsells" /\ DOMAIN store.upsells = {})
    => call.result.kind = "null"

(***************************************************************************)
(* C10. getProductsByIds with at least one usable id issues exactly one    *)
(* query and returns, each once, exactly the stored products whose key is  *)
(* among the ids and whose visibility equals the upper-cased flag when     *)
(* that is DRAFT, PUBLISHED or HIDDEN; any other visibility restricts      *)
(* nothing.                                                                *)
(***************************************************************************)
C10_ByIdsExactMatches ==
    (call.op = "getProductsByIds" /\ Requested(call.args.ids) # {})
    => /\ call.ops = <<QueryOp("products")>>
       /\ IF WantedByIds = {}
          THEN call.result.kind = "null"
          ELSE /\ call.result.kind = "list"
               /\ Len(call.result.val) = Cardinality(WantedByIds)
               /\ Range(call.src) = WantedByIds
               /\ \A i \in 1..Len(call.result.val) :
                     /\ call.result.val[i]["visibility"]
                          = store.products[call.src[i]]["visibility"]
                     /\ call.result.val[i]["updatedAt"]
                          = store.products[call.src[i]]["updatedAt"]

C10_Witness ==
    /\ call.op = "getProductsByIds"
    /\ Len(call.args.ids.items) = 4
    /\ Requested(call.args.ids) = {"p2", " p1\t"}
    /\ Str(call.args.visibility.chars) = "published"
    /\ Cardinality(DOMAIN store.products) = 2
    /\ call.result.kind = "list"
    /\ call.src = <<"p2">>


(***************************************************************************)
(* C11.  A list fetch that returns a list returns the documents its query  *)
(* matched, each exactly once, ordered by their sort field: getProducts,   *)
(* getProductsByIds and getUpsells by updatedAt, newest first;             *)
(* getCollections and getCategories by index, smallest first.              *)
(***************************************************************************)
ListOps ==
    {"getProducts", "getProductsByIds", "getCollections", "getUpsells",
     "getCategories"}

NewestFirstOps == {"getProducts", "getProductsByIds", "getUpsells"}

\* the keys of the documents the query of the last call is to match
Matched ==
    CASE call.op \in {"getProducts", "getCollections"} ->
             Visible(PartitionOf(call.op), call.args.visibility)
      [] call.op = "getProductsByIds" -> WantedByIds
      [] OTHER -> DOMAIN store[PartitionOf(call.op)]

C11_ListsSorted ==
    (call.op \in ListOps /\ call.result.kind = "list") =>
        LET val == call.result.val
            src == call.src
            part == PartitionOf(call.op)
            key == IF call.op \in NewestFirstOps THEN "updatedAt" ELSE "index"
        IN /\ Len(val) = Len(src)
           /\ Range(src) = Matched
           /\ \A i, j \in 1..Len(src) : src[i] = src[j] => i = j
           /\ \A i \in 1..Len(val) : val[i][key] = store[part][src[i]][key]
           /\ \A i, j \in 1..Len(val) :
                 i < j =>
                    IF call.op \in NewestFirstOps
                    THEN GetTime(val[i][key]) >= GetTime(val[j][key])
                    ELSE val[i][key] <= val[j][key]

\* two products came back in the reverse of the order the query gave them,
\* and two collections likewise
C11_Witness ==
    \/ /\ call.op = "getProducts"
       /\ call.result.kind = "list"
       /\ call.src = <<"p2", "p1">>
    \/ /\ call.op = "getCollections"
       /\ call.result.kind = "list"
       /\ call.src = <<"k2", "k1">>

(***************************************************************************)
(* C12.  getCollections called without a usable field returns, for each    *)
(* collection, every field of the stored document (merged with id), as the *)
(* single-entity fetch does.                                               *)
(***************************************************************************)
C12_CollectionsFullDocument ==
    ( /\ call.op = "getCollections"
      /\ call.result.kind = "list"
      /\ Requested(call.args.fields) = {} ) =>
        \A i \in 1..Len(call.result.val) :
            LET stored == store["collections"][call.src[i]]
            IN \A f \in DOMAIN stored \ {"id"} :
                  /\ f \in DOMAIN call.result.val[i]
                  /\ call.result.val[i][f] = stored[f]

(***************************************************************************)
(* C13.  getUpsell returns the stored products of the upsell ordered by    *)
(* index, smallest first, entries of equal index in their stored order,    *)
(* none added and none lost; an upsell that stores no products gets the    *)
(* empty list; the store is left as it was.                                *)
(***************************************************************************)
StoredRefs(part, key) ==
    IF "products" \in DOMAIN store[part][key]
    THEN store[part][key]["products"]
    ELSE <<>>

C13_UpsellProductsSorted ==
    (call.op = "getUpsell" /\ call.result.kind = "doc") =>
        LET refs == StoredRefs("upsells", call.src[1])
            out == call.result.val["products"]
            n == Len(refs)
        IN /\ Len(out) = n
           /\ \E p \in [1..n -> 1..n] :
                 /\ \A i \in 1..n : out[i] = refs[p[i]]
                 /\ \A i, j \in 1..n :
                       i < j => \/ out[i].index < out[j].index
                                \/ /\ out[i].index = out[j].index
                                   /\ p[i] < p[j]
           /\ store = store0

\* an upsell whose stored products are out of order and hold two entries of
\* one index came back sorted
C13_Witness ==
    /\ call.op = "getUpsell"
    /\ call.result.kind = "doc"
    /\ Len(call.result.val["products"]) = 3
    /\ call.result.val["products"] # StoredRefs("upsells", call.src[1])

(***************************************************************************)
(* C14.  When the product is absent, or names no upsell, or names an       *)
(* upsell that is not in the store, getProductWithUpsell returns what      *)
(* getProduct returns for the same options and raises no error; in the     *)
(* first two cases it issues no lookup in the upsells partition.           *)
(***************************************************************************)
ProductAbsent == Str(Trim(call.args.id)) \notin DOMAIN store.products

NamesNoUpsell ==
    /\ ~ProductAbsent
    /\ Get(store.products[Str(Trim(call.args.id))], "upsell")
          \in {Undefined, ""}

NamedUpsellMissing ==
    /\ ~ProductAbsent
    /\ ~NamesNoUpsell
    /\ store.products[Str(Trim(call.args.id))]["upsell"]
          \notin DOMAIN store.upsells

C14_PlainProductWithoutUpsell ==
    call.op = "getProductWithUpsell" =>
        LET plain == getProduct(store, call.args).result
        IN /\ (ProductAbsent \/ NamesNoUpsell \/ NamedUpsellMissing) =>
                 /\ call.result.kind = plain.kind
                 /\ call.result.kind # "error"
                 /\ call.result.kind = "doc" => call.result.val = plain.val
           /\ (ProductAbsent \/ NamesNoUpsell) =>
                 \A i \in 1..Len(call.ops) : call.ops[i].part # "upsells"

\* the product names an upsell that is not in the store: the upsell was
\* looked up and the plain product came back
C14_Witness ==
    /\ call.op = "getProductWithUpsell"
    /\ NamedUpsellMissing
    /\ call.result.kind = "doc"
    /\ call.ops = <<ReadOp("products", "p2"), ReadOp("upsells", "u1")>>
    /\ call.result.val["upsell"] = "u1"

(***************************************************************************)
(* C15.  When getProductWithUpsell resolves an upsell, upsell.products     *)
(* has one entry per stored reference whose product exists and none for a  *)
(* reference whose product is absent, in the order of the stored           *)
(* references whatever the order the lookups settled in; an absent         *)
(* product raises no error.                                                *)
(***************************************************************************)
\* the upsell the product of the last call names
NamedUpsell == store.products[Str(Trim(call.args.id))]["upsell"]

\* the last call is one that reaches the products of an upsell in the store
ResolvesUpsell ==
    /\ call.op = "getProductWithUpsell"
    /\ ~ProductAbsent
    /\ ~NamesNoUpsell
    /\ ~NamedUpsellMissing
    /\ "products" \in DOMAIN store.upsells[NamedUpsell]
    /\ \/ Requested(call.args.fields) = {}
       \/ "upsell" \in Requested(call.args.fields)

RefResolves(ref) == ref.id \in DOMAIN store.products

C15_UpsellProductsInStoredOrder ==
    ResolvesUpsell =>
        /\ call.result.kind = "doc"
        /\ LET out == call.result.val["upsell"]["products"]
               present == SelectSeq(StoredRefs("upsells", NamedUpsell),
                                    RefResolves)
           IN /\ Len(out) = Len(present)
              /\ \A i \in 1..Len(out) :
                    /\ out[i].index = present[i].index
                    /\ out[i].name = present[i].name

\* three references, the second to an absent product, their lookups settled
\* last to first: two entries came back
C15_Witness ==
    /\ ResolvesUpsell
    /\ call.settled = <<3, 2, 1>>
    /\ call.result.kind = "doc"
    /\ Len(call.result.val["upsell"]["products"]) = 2
    /\ Len(StoredRefs("upsells", NamedUpsell)) = 3

(***************************************************************************)
(* C16.  Every entry of the upsell.products list getProductWithUpsell      *)
(* returns carries the key of the referenced product as id and the name,   *)
(* slug, main image and base price stored on that product, whatever the    *)
(* copy inside the upsell document says.                                   *)
(***************************************************************************)
C16_EntriesFromProduct ==
    (ResolvesUpsell /\ call.result.kind = "doc") =>
        LET out == call.result.val["upsell"]["products"]
            present == SelectSeq(StoredRefs("upsells", NamedUpsell),
                                 RefResolves)
        IN \A i \in 1..Len(out) :
              LET product == store.products[present[i].id]
              IN /\ out[i].id = present[i].id
                 /\ out[i].name = product["name"]
                 /\ out[i].slug = product["slug"]
                 /\ out[i].mainImage = product["images"]["main"]
                 /\ out[i].basePrice = product["pricing"]["basePrice"]

\* the part of C16 the code keeps: slug, main image and base price are the
\* product's
UpsellEntriesPriceFromProduct ==
    (ResolvesUpsell /\ call.result.kind = "doc") =>
        LET out == call.result.val["upsell"]["products"]
            present == SelectSeq(StoredRefs("upsells", NamedUpsell),
                                 RefResolves)
        IN \A i \in 1..Len(out) :
              LET product == store.products[present[i].id]
              IN /\ out[i].slug = product["slug"]
                 /\ out[i].mainImage = product["images"]["main"]
                 /\ out[i].basePrice = product["pricing"]["basePrice"]

(***************************************************************************)
(* C17.  getCollections called with "products" among its fields returns,   *)
(* for each collection, one entry per stored reference in stored order:    *)
(* the fields of the referenced product document with id and index         *)
(* replaced by those of the reference, and {id, index} alone when the      *)
(* product document is absent.                                             *)
(***************************************************************************)
C17_CollectionProductsExpanded ==
    ( /\ call.op = "getCollections"
      /\ call.result.kind = "list"
      /\ "products" \in Requested(call.args.fields) ) =>
        \A i \in 1..Len(call.result.val) :
            LET refs == StoredRefs("collections", call.src[i])
                out == call.result.val[i]["products"]
            IN /\ Len(out) = Len(refs)
               /\ \A j \in 1..Len(refs) :
                     LET product ==
                             IF refs[j].id \in DOMAIN store.products
                             THEN store.products[refs[j].id]
                             ELSE NoDoc
                     IN /\ out[j]["id"] = refs[j].id
                        /\ out[j]["index"] = refs[j].index
                        /\ DOMAIN out[j] = DOMAIN product \cup {"id", "index"}
                        /\ \A f \in DOMAIN product \ {"id", "index"} :
                              out[j][f] = product[f]

\* a collection with two references came back: one to a product that
\* stores an id of its own, the other to an absent product
C17_Witness ==
    /\ call.op = "getCollections"
    /\ call.result.kind = "list"
    /\ "products" \in Requested(call.args.fields)
    /\ \E i \in 1..Len(call.result.val) :
          LET out == call.result.val[i]["products"]
          IN /\ Len(out) = 2
             /\ DOMAIN out[2] = {"id", "index"}
             /\ out[1]["id"] = "p2"
             /\ "p2" \in DOMAIN store.products
             /\ Get(store.products["p2"], "id") = "zz"

(***************************************************************************)
(* C18.  getProducts, getCollections and getProductsByIds given a          *)
(* visibility that is not exactly DRAFT, PUBLISHED or HIDDEN filter on no  *)
(* visibility: they return what they return when visibility is omitted.    *)
(***************************************************************************)
ExactFlag(v) == v.isString /\ Str(v.chars) \in {"DRAFT", "PUBLISHED", "HIDDEN"}

\* the keys the last call is to return when no visibility filter applies
Unfiltered ==
    IF call.op = "getProductsByIds"
    THEN Requested(call.args.ids) \cap DOMAIN store.products
    ELSE DOMAIN store[PartitionOf(call.op)]

C18_InvalidVisibilityIsNoFilter ==
    ( /\ call.op \in {"getProducts", "getCollections", "getProductsByIds"}
      /\ ~ExactFlag(call.args.visibility) ) =>
        IF Unfiltered = {}
        THEN call.result.kind = "null"
        ELSE call.result.kind = "list" /\ Range(call.src) = Unfiltered

\* the part of C18 the code keeps: a visibility that is no flag in any
\* letter case is no filter for getProductsByIds
ByIdsUnknownVisibilityIsNoFilter ==
    ( /\ call.op = "getProductsByIds"
      /\ UpperFlag(call.args.visibility) = JsOther ) =>
        IF Unfiltered = {}
        THEN call.result.kind = "null"
        ELSE call.result.kind = "list" /\ Range(call.src) = Unfiltered

(***************************************************************************)
(* C20.  Whatever settings/defaultSettings holds, the document getSettings *)
(* returns has a categorySection with a visibility.                        *)
(***************************************************************************)
C20_SettingsAlwaysComplete ==
    \A p \in Callers :
        result[p].op = "getSettings" =>
            /\ "categorySection" \in DOMAIN result[p].val
            /\ "visibility" \in DOMAIN result[p].val["categorySection"]

\* the part of C20 the code keeps: the returned document has a
\* categorySection whenever the stored keys name no member of Object.prototype
SettingsHaveCategorySection ==
    \A p \in Callers :
        ( /\ result[p].op = "getSettings"
          /\ \A k \in DOMAIN result[p].prior :
                DOMAIN result[p].prior[k] \cap ObjectPrototypeKeys = {} )
        => "categorySection" \in DOMAIN result[p].val

(***************************************************************************)
(* C19.  When a store operation issued by an exported operation fails,     *)
(* the operation fails: it returns no null, no partial result and no       *)
(* default document.                                                       *)
(***************************************************************************)
C19_StoreFailureFailsTheCall ==
    /\ call.failed # 0 => call.result.kind = "error"
    /\ \A p \in Callers :
          ( /\ result[p].op # "none"
            /\ \E i \in 1..Len(history) :
                  history[i].ev = "fail" /\ history[i].by = result[p].no )
          => (result[p].threw /\ result[p].val = NoDoc)

\* the third lookup of the fan-out of getProductWithUpsell failed after
\* another had settled
C19_Witness ==
    /\ call.op = "getProductWithUpsell"
    /\ call.failed = 5
    /\ call.settled # << >>
    /\ call.result.kind = "error"

\* the put of the default page hero failed and the call failed with it
HeroPutFailureSeen ==
    /\ result["a"].op = "getPageHero"
    /\ result["a"].threw
    /\ \E i \in 1..Len(history) :
          /\ history[i] = Event("fail", "getPageHero", result["a"].no, FALSE)
          /\ i > 1
          /\ history[i - 1] = Event("read", "getPageHero", result["a"].no, TRUE)

(***************************************************************************)
(* C21.  Only the two bootstraps change the store.  A step that changes    *)
(* it is the put of a getPageHero call that read homepageHero as absent,   *)
(* or the put of a getSettings call that read defaultSettings as absent or *)
(* whose reconciliation added or removed a key; the put changes nothing    *)
(* but pageHero/homepageHero, respectively settings/defaultSettings.  No   *)
(* catalog read changes any partition.                                     *)
(***************************************************************************)
\* the step changes at most the document `key` of partition `part`
ChangesOnly(part, key) ==
    /\ \A other \in DOMAIN store \ {part} : store'[other] = store[other]
    /\ DOMAIN store'[part] \ {key} = DOMAIN store[part] \ {key}
    /\ \A k \in DOMAIN store[part] \ {key} : store'[part][k] = store[part][k]

\* a call is left awaiting its put only by a read that found the document
\* absent or, for getSettings, whose reconciliation changed the key set
AwaitsPutStep(p) ==
    /\ (pc[p] = "idle" /\ pc'[p] = "hero_put") =>
          "homepageHero" \notin DOMAIN store.pageHero
    /\ (pc[p] = "idle" /\ pc'[p] = "settings_put") =>
          \/ "defaultSettings" \notin DOMAIN store.settings
          \/ DOMAIN store.settings["defaultSettings"] # DOMAIN local'[p].doc

\* a put is issued only by a call that awaits it, on its own document
PutStep ==
    (Len(history') > Len(history) /\ history'[Len(history')].ev = "put") =>
        \E p \in Callers :
            /\ callNo[p] = history'[Len(history')].by
            /\ pc'[p] = "idle"
            /\ \/ /\ pc[p] = "hero_put"
                  /\ history'[Len(history')].op = "getPageHero"
                  /\ ChangesOnly("pageHero", "homepageHero")
               \/ /\ pc[p] = "settings_put"
                  /\ history'[Len(history')].op = "getSettings"
                  /\ ChangesOnly("settings", "defaultSettings")

OnlyBootstrapsWrite ==
    /\ store' # store =>
          (Len(history') > Len(history) /\ history'[Len(history')].ev = "put")
    /\ PutStep
    /\ \A p \in Callers : AwaitsPutStep(p)
    /\ (call' # call \/ pwu' # pwu) => store' = store

C21_OnlyBootstrapsWrite == [][OnlyBootstrapsWrite]_vars

\* a getSettings call that read an existing document with a key outside the
\* schema has written the reconciled document back
C21_Witness ==
    /\ store # store0
    /\ "defaultSettings" \in DOMAIN store0.settings
    /\ "banner" \in DOMAIN store0.settings["defaultSettings"]
    /\ store.settings["defaultSettings"] = defaultSettings
    /\ store.products = store0.products
    /\ \E i \in 1..Len(history) :
          history[i].ev = "put" /\ history[i].op = "getSettings"

(***************************************************************************)
(* C22.  Whatever the interleaving with another writer of                  *)
(* pageHero/homepageHero, no step of a getPageHero call replaces a stored  *)
(* document of non-default content by the hardcoded default.               *)
(***************************************************************************)
\* the step is a write of the other actor
AdminStep ==
    /\ Len(history') > Len(history)
    /\ history'[Len(history')].ev = "admin"

HeroKeptStep ==
    ( /\ "homepageHero" \in DOMAIN store.pageHero
      /\ store.pageHero["homepageHero"] # defaultPageHero
      /\ ~AdminStep )
    => /\ "homepageHero" \in DOMAIN store'.pageHero
       /\ store'.pageHero["homepageHero"] = store.pageHero["homepageHero"]

C22_HeroNeverOverwritesWriter == [][HeroKeptStep]_vars

\* the part of C22 the code keeps: a call that read the document as present
\* issues no put
HeroPresentReadNeverPuts ==
    \A i \in Events("put", "getPageHero") :
        \E j \in Events("read", "getPageHero") :
            /\ j < i
            /\ history[j].by = history[i].by
            /\ history[j].absent

(***************************************************************************)
(* C23.  Whatever the interleaving with another writer of                  *)
(* settings/defaultSettings, no step of a getSettings call changes the     *)
(* value the other writer stored under a key of the default schema.        *)
(***************************************************************************)
SettingsKeptStep ==
    ( /\ NumEvents("admin") > 0
      /\ ~AdminStep
      /\ "defaultSettings" \in DOMAIN store.settings )
    => /\ "defaultSettings" \in DOMAIN store'.settings
       /\ \A key \in DOMAIN defaultSettings
                      \cap DOMAIN store.settings["defaultSettings"] :
             /\ key \in DOMAIN store'.settings["defaultSettings"]
             /\ store'.settings["defaultSettings"][key]
                  = store.settings["defaultSettings"][key]

C23_SettingsWriteBackKeepsValues == [][SettingsKeptStep]_vars

\* the part of C23 the code keeps: a put of a call that no write of another
\* actor fell into changes no value stored under a key of the schema
SettingsWriteBackKeepsValuesAlone ==
    \A p \in Callers :
        ( /\ result[p].op = "getSettings"
          /\ ~result[p].interleaved
          /\ "defaultSettings" \in DOMAIN result[p].prior )
        => \A key \in DOMAIN defaultSettings
                       \cap DOMAIN result[p].prior["defaultSettings"] :
              /\ key \in DOMAIN result[p].after["defaultSettings"]
              /\ result[p].after["defaultSettings"][key]
                   = result[p].prior["defaultSettings"][key]

====
